---- MODULE Spec2Model ----
(***************************************************************************)
(* Model of the e_commerce_forecast feature pipeline:                      *)
(*   feature_pipeline/etl.py        Extract, Transform, Load               *)
(*   feature_pipeline/validation.py build_expectation_suite                *)
(*   feature_pipeline/pipeline.py   run, transform                         *)
(*                                                                         *)
(* Conventions.  A DataFrame is a record [columns, dtypes, rows].  A       *)
(* timestamp is the number of minutes since 2011-01-01 00:00.  A missing   *)
(* float (NaN) is the flag isna of the row that holds it.                  *)
(*                                                                         *)
(* Prices are float64 in the code.  The model holds the prices that are    *)
(* multiples of 1/PriceScale = 0.25, as the integer count of quarters      *)
(* (10.0 is 40, 2.5 is 10).  On such values every operation the code       *)
(* performs (the sums of groupby and resample, the quantiles at 0.25 and   *)
(* 0.75, q3 - q1, 3 * iqr, the two bounds, the comparisons and round) is   *)
(* exact in float64, so the integer arithmetic of the model yields the     *)
(* doubles of the code.  A price such as 0.01, whose double is not the     *)
(* decimal fraction, has no representation in the model.                   *)
(***************************************************************************)
EXTENDS Integers, Sequences, FiniteSets, TLC

\* Prices are counted in units of 1/PriceScale.
PriceScale == 4

VARIABLES
    pc,               \* position of run(), of transform or of the outlier filter
    cache,            \* the file cache_dir/data.csv
    remote,           \* the rows of the Kaggle dataset, as the csv file holds them
    records,          \* the frame Extract.from_file returned, which is the frame
                      \* Transform was constructed with (None when there is none)
    metadata,         \* the metadata dictionary of run
    data,             \* Transform.data
    country_list,     \* argument of Transform.filter_countries
    country_mappings, \* Transform.country_mappings
    table,            \* the table returned by Transform.aggregate_data
    suite,            \* the expectation suite run() has built
    store,            \* the feature group: inserted batches, attached suite
    metafile,         \* feature_pipeline_metadata.json
    error,            \* the exception that ended the run, "none" otherwise
    trace,            \* stages entered by the current run, in order
    hist,             \* facts about the current and the previous run
    runs,             \* number of runs started
    given,            \* the rows of agg_data when iqr_outlier_removal is called
    agg_in,           \* the frame agg_data passed to iqr_outlier_removal
    agg_out           \* its return value

vars == <<pc, cache, remote, records, metadata, data, country_list,
          country_mappings, table, suite, store, metafile, error, trace,
          hist, runs, given, agg_in, agg_out>>

runVars == <<cache, remote, metadata, suite, store, metafile, trace, hist, runs>>

iqrVars == <<given, agg_in, agg_out>>

(***************************************************************************)
(* Bounds of the model.                                                    *)
(***************************************************************************)
MaxSeries == 6      \* longest series given to iqr_outlier_removal alone
MaxRows == 4        \* longest raw dataset of the country-varied inputs
SeriesLen == 5      \* longest raw dataset of the single-country inputs
NumDays == 3        \* calendar days the raw datasets range over
WideExtra == 2      \* distinct countries beyond the int8 range that are tried
RunRows == 2        \* longest dataset a whole run is given
MaxRuns == 2        \* runs of the pipeline in a row

(***************************************************************************)
(* Program constants.                                                      *)
(***************************************************************************)
Int8Min == -128
Int8Max == 127
IqrFactor == 3
MinutesPerDay == 1440
ColumnCount == 4

None == [none |-> TRUE]

(***************************************************************************)
(* Generic helpers.                                                        *)
(***************************************************************************)
Range(s) == {s[i] : i \in 1..Len(s)}

RECURSIVE SumSeq(_)
SumSeq(s) == IF s = <<>> THEN 0 ELSE Head(s) + SumSeq(Tail(s))

Column(rows, col) == [i \in 1..Len(rows) |-> rows[i][col]]

MinOf(S) == CHOOSE x \in S : \A y \in S : x <= y
MaxOf(S) == CHOOSE x \in S : \A y \in S : y <= x

\* Lexicographic order on tuples of integers of equal length.
RECURSIVE LexLess(_, _)
LexLess(a, b) ==
    IF a = <<>> THEN FALSE
    ELSE IF Head(a) # Head(b) THEN Head(a) < Head(b)
    ELSE LexLess(Tail(a), Tail(b))

\* The elements of a set of integer tuples, ascending: the k-th is the one
\* with k-1 elements below it.
SortedKeys(S) ==
    [k \in 1..Cardinality(S) |->
        CHOOSE x \in S : Cardinality({y \in S : LexLess(y, x)}) = k - 1]

\* numpy.sort of a sequence of integers.
RECURSIVE SortValues(_)
SortValues(s) ==
    IF s = <<>> THEN <<>>
    ELSE LET i == CHOOSE i \in 1..Len(s) : \A j \in 1..Len(s) : s[i] <= s[j]
         IN <<s[i]>> \o SortValues(SubSeq(s, 1, i - 1) \o SubSeq(s, i + 1, Len(s)))

(***************************************************************************)
(* DataFrame helpers (the pandas operations the transform uses).           *)
(***************************************************************************)
\* pandas.read_csv of a file holding the header line and `rows`.  A file
\* without a data row gives every column the dtype object.  Otherwise the
\* dtype is inferred from the fields: the rows of this model hold whole
\* numbers in Quantity, InvoiceNo and CustomerID (int64), decimal numbers in
\* UnitPrice (float64) and text that is no number in the other columns
\* (object).
RawColumns ==
    <<"InvoiceNo", "StockCode", "Description", "Quantity", "InvoiceDate",
      "UnitPrice", "CustomerID", "Country">>

ReadCsv(rows) ==
    [columns |-> RawColumns,
     dtypes |-> [c \in Range(RawColumns) |->
                    IF rows = <<>> THEN "object"
                    ELSE IF c \in {"Quantity", "InvoiceNo", "CustomerID"} THEN "int64"
                    ELSE IF c = "UnitPrice" THEN "float64"
                    ELSE "object"],
     rows |-> rows]

\* DataFrame.drop(columns = cols)
DropColumns(df, cols) ==
    LET Keep(c) == c \notin cols
    IN [columns |-> SelectSeq(df.columns, Keep),
        dtypes |-> [c \in (DOMAIN df.dtypes) \ cols |-> df.dtypes[c]],
        rows |-> [i \in 1..Len(df.rows) |->
                     [c \in (DOMAIN df.rows[i]) \ cols |-> df.rows[i][c]]]]

\* DataFrame.rename(columns = mapping)
RenameFrame(df, mapping) ==
    LET New(c) == IF c \in DOMAIN mapping THEN mapping[c] ELSE c
        Old(n) == CHOOSE c \in Range(df.columns) : New(c) = n
        names == {New(c) : c \in Range(df.columns)}
    IN [columns |-> [i \in 1..Len(df.columns) |-> New(df.columns[i])],
        dtypes |-> [n \in names |-> df.dtypes[Old(n)]],
        rows |-> [i \in 1..Len(df.rows) |-> [n \in names |-> df.rows[i][Old(n)]]]]

\* The Gregorian calendar of pandas.to_datetime.
IsLeapYear(y) == (y % 4 = 0 /\ y % 100 # 0) \/ y % 400 = 0

DaysInMonth(m, y) ==
    IF m = 2 THEN (IF IsLeapYear(y) THEN 29 ELSE 28)
    ELSE IF m \in {4, 6, 9, 11} THEN 30 ELSE 31

\* Days of year y before the first of month m.
RECURSIVE DaysBeforeMonth(_, _)
DaysBeforeMonth(m, y) ==
    IF m = 1 THEN 0 ELSE DaysBeforeMonth(m - 1, y) + DaysInMonth(m - 1, y)

\* Leap years before year y (proleptic count).
LeapYearsBefore(y) == ((y - 1) \div 4) - ((y - 1) \div 100) + ((y - 1) \div 400)

\* Days from 2011-01-01 to the first of January of year y.
DaysBeforeYear(y) == (y - 2011) * 365 + LeapYearsBefore(y) - LeapYearsBefore(2011)

\* The first and the last whole minute of datetime64[ns], as <<month, day,
\* year, hour, minute>>: Timestamp.min is 1677-09-21 00:12:43.145224193 and
\* Timestamp.max is 2262-04-11 23:47:16.854775807.
TimestampMin == <<9, 21, 1677, 0, 13>>

TimestampMax == <<4, 11, 2262, 23, 47>>

\* Is the date and time a earlier than b?
Earlier(a, b) ==
    LET ka == <<a[3], a[1], a[2], a[4], a[5]>>
        kb == <<b[3], b[1], b[2], b[4], b[5]>>
    IN \E i \in 1..5 : ka[i] < kb[i] /\ \A j \in 1..(i - 1) : ka[j] = kb[j]

\* Does <<month, day, year, hour, minute>> name a date and time that
\* datetime64[ns] holds?  For any other value pandas.to_datetime raises
\* ValueError (OutOfBoundsDatetime is one).
ValidStamp(s) ==
    /\ s[1] \in 1..12
    /\ s[3] \in 1..9999
    /\ s[2] \in 1..DaysInMonth(s[1], s[3])
    /\ s[4] \in 0..23
    /\ s[5] \in 0..59
    /\ ~Earlier(s, TimestampMin)
    /\ ~Earlier(TimestampMax, s)

\* pandas.to_datetime(s, format = '%m/%d/%Y %H:%M') of a valid <<month, day,
\* year, hour, minute>>, as minutes since 2011-01-01 00:00.
ToDatetime(s) ==
    (((DaysBeforeYear(s[3]) + DaysBeforeMonth(s[1], s[3]) + (s[2] - 1)) * 24 + s[4]) * 60)
    + s[5]

\* Series.unique(): the distinct values in order of first appearance, that
\* is the values at the positions that repeat no earlier position.
Unique(s) ==
    LET IsFirst(i) == \A j \in 1..(i - 1) : s[j] # s[i]
        Firsts(n) == {i \in 1..n : IsFirst(i)}
    IN [k \in 1..Cardinality(Firsts(Len(s))) |->
           s[CHOOSE i \in Firsts(Len(s)) : Cardinality(Firsts(i)) = k]]

\* {v: i for i, v in enumerate(u)}
Enumerate(u) == [v \in Range(u) |-> (CHOOSE i \in 1..Len(u) : u[i] = v) - 1]

\* ndarray.astype("int8") of an int64: the low eight bits, signed.
AsInt8(x) == ((x - Int8Min) % (Int8Max - Int8Min + 1)) + Int8Min

(***************************************************************************)
(* Transform (etl.py).                                                     *)
(***************************************************************************)
rename_columns(df) ==
    RenameFrame(DropColumns(df, {"StockCode", "Description", "CustomerID", "Quantity"}),
                [InvoiceNo |-> "invoice_id", InvoiceDate |-> "invoice_date",
                 UnitPrice |-> "total_price", Country |-> "country"])

\* Does pd.to_datetime raise on the invoice_date column of df?
CastFails(df) == \E r \in Range(df.rows) : ~ValidStamp(r.invoice_date)

\* The frame after cast_columns, for a frame whose dates are all valid.
cast_columns(df) ==
    [df EXCEPT !.rows = [i \in 1..Len(df.rows) |->
                            [df.rows[i] EXCEPT !.invoice_date = ToDatetime(@)]],
               !.dtypes = [@ EXCEPT !.invoice_date = "datetime64[ns]"]]

\* self.data after filter_countries
filter_countries(df, clist) ==
    LET IsIn(r) == r.country \in Range(clist)
    IN [df EXCEPT !.rows = SelectSeq(df.rows, IsIn)]

\* self.country_mappings after filter_countries
CountryMappings(df, clist) ==
    Enumerate(Unique(Column(filter_countries(df, clist).rows, "country")))

encode_country_column(df, mappings) ==
    [df EXCEPT !.rows = [i \in 1..Len(df.rows) |->
                            [df.rows[i] EXCEPT !.country = AsInt8(mappings[@])]],
               !.dtypes = [@ EXCEPT !.country = "int8"]]

\* Series.quantile(k/4) with linear interpolation, times 4, of a non-empty
\* series of values.
Quantile4(values, k) ==
    LET s == SortValues(values)
        pos4 == k * (Len(s) - 1)
        lo == (pos4 \div 4) + 1
        fr == pos4 % 4
    IN IF fr = 0 THEN 4 * s[lo] ELSE s[lo] * (4 - fr) + s[lo + 1] * fr

\* A variant that filters again, with the quartiles of what is left, until
\* nothing more is dropped.
RECURSIVE iqr_outlier_removal_repeated(_)
iqr_outlier_removal_repeated(agg) ==
    IF agg = <<>> THEN agg
    ELSE LET vals == Column(agg, "total_price")
             q1 == Quantile4(vals, 1)
             q3 == Quantile4(vals, 3)
             Kept(r) == /\ 4 * r.total_price >= q1 - IqrFactor * (q3 - q1)
                        /\ 4 * r.total_price <= q3 + IqrFactor * (q3 - q1)
             kept == SelectSeq(agg, Kept)
         IN IF kept = agg THEN agg ELSE iqr_outlier_removal_repeated(kept)

\* Rows are [invoice_date, total_price, isna].  An empty series has NaN
\* quantiles, every comparison with NaN is False and nothing is marked.
iqr_outlier_removal(agg) ==
    IF agg = <<>> THEN agg
    ELSE LET vals == Column(agg, "total_price")
             q1 == Quantile4(vals, 1)
             q3 == Quantile4(vals, 3)
             iqr == q3 - q1
             lower_bound == q1 - IqrFactor * iqr
             upper_bound == q3 + IqrFactor * iqr
             marked == [i \in 1..Len(agg) |->
                          IF 4 * agg[i].total_price < lower_bound
                             \/ 4 * agg[i].total_price > upper_bound
                          THEN [agg[i] EXCEPT !.isna = TRUE]
                          ELSE agg[i]]
             NotNa(r) == ~r.isna
         IN SelectSeq(marked, NotNa)

\* groupby(['invoice_date', 'invoice_id', 'country']).agg(sum).reset_index()
GroupByInvoice(rows) ==
    LET keys == SortedKeys({<<r.invoice_date, r.invoice_id, r.country>> : r \in Range(rows)})
    IN [i \in 1..Len(keys) |->
          LET Match(r) == <<r.invoice_date, r.invoice_id, r.country>> = keys[i]
          IN [invoice_date |-> keys[i][1], invoice_id |-> keys[i][2],
              country |-> keys[i][3],
              total_price |-> SumSeq(Column(SelectSeq(rows, Match), "total_price"))]]

\* agg_data[agg_data['country'] == country].groupby(['invoice_date']).agg(sum).reset_index()
GroupByDate(agg_data, country) ==
    LET OfCountry(r) == r.country = country
        sel == SelectSeq(agg_data, OfCountry)
        keys == SortedKeys({<<r.invoice_date>> : r \in Range(sel)})
    IN [i \in 1..Len(keys) |->
          LET Match(r) == r.invoice_date = keys[i][1]
          IN [invoice_date |-> keys[i][1],
              total_price |-> SumSeq(Column(SelectSeq(sel, Match), "total_price")),
              isna |-> FALSE]]

DayOf(ts) == ts \div MinutesPerDay

\* resample('D', on = 'invoice_date').sum(): one bin per calendar day from
\* the first to the last row; the sum of a bin without rows is 0.
ResampleSum(rows) ==
    IF rows = <<>> THEN <<>>
    ELSE LET first == MinOf({DayOf(r.invoice_date) : r \in Range(rows)})
             last == MaxOf({DayOf(r.invoice_date) : r \in Range(rows)})
         IN [i \in 1..(last - first + 1) |->
               LET InBin(r) == DayOf(r.invoice_date) = first + i - 1
               IN [invoice_date |-> (first + i - 1) * MinutesPerDay,
                   num |-> SumSeq(Column(SelectSeq(rows, InBin), "total_price")),
                   den |-> 1,
                   isna |-> FALSE]]

\* DataFrame.interpolate(): a NaN between two values becomes the point on
\* the line between them (the value is num/den), a NaN after the last value
\* repeats it, a NaN before the first value stays.  The cells of ResampleSum
\* hold no NaN, so that in aggregate_data it returns its argument.
Interpolate(cells) ==
    [i \in 1..Len(cells) |->
        IF ~cells[i].isna THEN cells[i]
        ELSE LET before == {j \in 1..(i - 1) : ~cells[j].isna}
                 after == {k \in (i + 1)..Len(cells) : ~cells[k].isna}
             IN IF before = {} THEN cells[i]
                ELSE IF after = {}
                THEN [cells[i] EXCEPT !.num = cells[MaxOf(before)].num, !.isna = FALSE]
                ELSE LET j == MaxOf(before)
                         k == MinOf(after)
                     IN [cells[i] EXCEPT
                           !.num = cells[j].num * (k - j)
                                   + (cells[k].num - cells[j].num) * (i - j),
                           !.den = k - j,
                           !.isna = FALSE]]

\* numpy.round of num/den quarters to a whole unit, half to even.
RoundHalfEven(num, den) ==
    LET u == den * PriceScale
        q == num \div u
        r == num - q * u
    IN IF 2 * r < u THEN q * PriceScale
       ELSE IF 2 * r > u THEN (q + 1) * PriceScale
       ELSE IF q % 2 = 0 THEN q * PriceScale ELSE (q + 1) * PriceScale

\* DataFrame.round().reset_index()
RoundCells(cells) ==
    [i \in 1..Len(cells) |->
        [invoice_date |-> cells[i].invoice_date,
         total_price |-> IF cells[i].isna THEN 0 ELSE RoundHalfEven(cells[i].num, cells[i].den),
         isna |-> cells[i].isna]]

\* One turn of the loop of aggregate_data: the rows of one country.
CountryRows(agg_data, country) ==
    LET agg_data_1 == GroupByDate(agg_data, country)
        agg_data_non_outliers == iqr_outlier_removal(agg_data_1)
        daily == RoundCells(Interpolate(ResampleSum(agg_data_non_outliers)))
    IN [i \in 1..Len(daily) |->
          [invoice_date |-> daily[i].invoice_date,
           total_price |-> daily[i].total_price,
           isna |-> daily[i].isna,
           country |-> country]]

LoopCountries == <<0, 1, 2>>

\* The dtypes pandas gives the column assigned from an empty list
\* (all_agg_data['id'] = [] when no row was aggregated): float64 before
\* pandas 2, object since.
EmptyListDtypes == {"float64", "object"}

\* empty_id is the member of EmptyListDtypes of the pandas in use.
aggregate_data(df, empty_id) ==
    LET agg_data == GroupByInvoice(df.rows)
        all_rows == CountryRows(agg_data, LoopCountries[1])
                    \o CountryRows(agg_data, LoopCountries[2])
                    \o CountryRows(agg_data, LoopCountries[3])
    IN [columns |-> Append(Append(<<"invoice_date", "total_price">>, "country"), "id"),
        dtypes |-> [invoice_date |-> "datetime64[ns]",
                    total_price |-> IF all_rows = <<>> THEN df.dtypes["total_price"]
                                    ELSE "float64",
                    country |-> "int64",
                    id |-> IF all_rows = <<>> THEN empty_id ELSE "int64"],
        rows |-> [i \in 1..Len(all_rows) |->
                    [invoice_date |-> all_rows[i].invoice_date,
                     total_price |-> all_rows[i].total_price,
                     isna |-> all_rows[i].isna,
                     country |-> all_rows[i].country,
                     id |-> i - 1]]]

\* pipeline.transform
TransformCountries == <<"United Kingdom", "France", "Germany">>

transform(df, empty_id) ==
    LET casted == cast_columns(rename_columns(df))
        mappings == CountryMappings(casted, TransformCountries)
    IN aggregate_data(encode_country_column(filter_countries(casted, TransformCountries),
                                            mappings), empty_id)

(***************************************************************************)
(* Inputs.                                                                 *)
(***************************************************************************)
SeqsUpTo(S, n) == UNION {[1..k -> S] : k \in 0..n}

Times == <<<<8, 26>>, <<14, 5>>>>

\* 'MM/DD/YYYY HH:MM' of day d of January 2011 at the t-th time of day.
Stamp(d, t) == <<1, d, 2011, Times[t][1], Times[t][2]>>

RawRow(inv, date, price, country) ==
    [InvoiceNo |-> inv, StockCode |-> "85123A", Description |-> "ITEM",
     Quantity |-> 1, InvoiceDate |-> date, UnitPrice |-> price,
     CustomerID |-> 17850, Country |-> country]

CountryNames == {"United Kingdom", "France", "Germany", "Spain", "france"}

\* Datasets that vary the countries: row i is a line of its own invoice, on
\* day ((i-1) mod NumDays)+1, priced 2.5 * i.
CountryInput(names) ==
    [i \in 1..Len(names) |->
        RawRow(536365 + i, Stamp(((i - 1) % NumDays) + 1, 1), (5 * i * PriceScale) \div 2, names[i])]

\* Datasets with one line for each of n distinct countries.
\* Names that read_csv keeps as text.
WideName(i) == "Country " \o ToString(i)

WideCounts == (Int8Max - 1)..(Int8Max + 1 + WideExtra)

WideInput(n) == [i \in 1..n |-> RawRow(536365, Stamp(1, 1), 10 * PriceScale, WideName(i))]

\* Datasets of one country in file order (chronological): every line has one
\* of the NumDays * 2 timestamps and one of the prices 10.0 and 20.0; lines alternate
\* between two invoices.
SeriesPrices == {10 * PriceScale, 20 * PriceScale}

\* The non-decreasing sequences of n timestamps numbered from lo to hi.
RECURSIVE Chronological(_, _, _)
Chronological(n, lo, hi) ==
    IF n = 0 THEN {<<>>}
    ELSE UNION {{<<k>> \o t : t \in Chronological(n - 1, k, hi)} : k \in lo..hi}

SeriesInput(slot, price) ==
    [i \in 1..Len(slot) |->
        RawRow(536365 + (i % 2), Stamp(((slot[i] - 1) \div 2) + 1, ((slot[i] - 1) % 2) + 1),
               price[i], "United Kingdom")]

\* The values 10.0, 11.0, 12.0, 13.0 and 1000.0.
IqrValues == {10 * PriceScale, 11 * PriceScale, 12 * PriceScale, 13 * PriceScale,
              1000 * PriceScale}

IqrInput(v) ==
    [i \in 1..Len(v) |->
        [invoice_date |-> (i - 1) * MinutesPerDay, total_price |-> v[i], isna |-> FALSE]]

(***************************************************************************)
(* State before the first run; transform and the filter leave it alone.    *)
(***************************************************************************)
NoFrame == [columns |-> <<>>, dtypes |-> <<>>, rows |-> <<>>]

AbsentFile == [exists |-> FALSE, empty |-> FALSE, rows |-> <<>>]

NewHist == [cacheAtStart |-> "none", outcome |-> "none", downloaded |-> FALSE,
            inserted |-> FALSE, saved |-> FALSE, batchesAtStart |-> 0,
            prevCacheAtStart |-> "none"]

NoStore == [suite |-> <<>>, batches |-> <<>>, reports |-> <<>>]

RunIdle ==
    /\ cache = AbsentFile
    /\ metadata = None
    /\ suite = <<>>
    /\ store = NoStore
    /\ metafile = None
    /\ error = "none"
    /\ trace = <<>>
    /\ hist = NewHist
    /\ runs = 0

(***************************************************************************)
(* The steps of pipeline.transform, one action each.  Transform keeps the  *)
(* frame it was constructed with, so rename_columns and cast_columns       *)
(* change the caller's frame (records) too; filter_countries rebinds       *)
(* self.data to a copy, and the later steps leave records alone.           *)
(***************************************************************************)
InitTransform(rows, clist) ==
    /\ pc = "rename"
    /\ remote = rows
    /\ records = ReadCsv(rows)
    /\ data = records
    /\ country_list = clist
    /\ country_mappings = <<>>
    /\ table = NoFrame
    /\ given = <<>>
    /\ agg_in = <<>>
    /\ agg_out = <<>>
    /\ RunIdle

RenameColumns ==
    /\ pc = "rename"
    /\ data' = rename_columns(data)
    /\ records' = data'
    /\ pc' = "cast"
    /\ UNCHANGED <<country_list, country_mappings, table, error, iqrVars, runVars>>

\* pd.to_datetime raises ValueError on a text that is no date, and the
\* column is then left as it was.
CastColumns ==
    /\ pc = "cast"
    /\ IF CastFails(data)
       THEN /\ error' = "ValueError"
            /\ pc' = "failed"
            /\ UNCHANGED <<data, records>>
       ELSE /\ data' = cast_columns(data)
            /\ records' = data'
            /\ pc' = "filter"
            /\ UNCHANGED error
    /\ UNCHANGED <<country_list, country_mappings, table, iqrVars, runVars>>

FilterCountries ==
    /\ pc = "filter"
    /\ data' = filter_countries(data, country_list)
    /\ country_mappings' = CountryMappings(data, country_list)
    /\ pc' = "encode"
    /\ UNCHANGED <<records, country_list, table, error, iqrVars, runVars>>

EncodeCountryColumn ==
    /\ pc = "encode"
    /\ data' = encode_country_column(data, country_mappings)
    /\ pc' = "aggregate"
    /\ UNCHANGED <<records, country_list, country_mappings, table, error, iqrVars, runVars>>

AggregateData ==
    /\ pc = "aggregate"
    /\ \E empty_id \in EmptyListDtypes : table' = aggregate_data(data, empty_id)
    /\ pc' = "transformed"
    /\ UNCHANGED <<records, data, country_list, country_mappings, error, iqrVars, runVars>>

NextTransform ==
    \/ RenameColumns
    \/ CastColumns
    \/ FilterCountries
    \/ EncodeCountryColumn
    \/ AggregateData

\* A line whose InvoiceDate is no date of the calendar (02/30/2011 08:26).
InvalidDateInput ==
    <<RawRow(536366, <<2, 30, 2011, 8, 26>>, (5 * PriceScale) \div 2, "France")>>

\* The transform on datasets that vary the countries, on a dataset with a
\* date pd.to_datetime refuses, and on datasets with more countries than
\* int8 holds.
InitCountries ==
    \/ \E names \in SeqsUpTo(CountryNames, MaxRows) :
          InitTransform(CountryInput(names), TransformCountries)
    \/ InitTransform(InvalidDateInput, TransformCountries)
    \/ \E n \in WideCounts :
          InitTransform(WideInput(n), [i \in 1..n |-> WideName(i)])

SpecCountries == InitCountries /\ [][NextTransform]_vars

\* The transform on single-country series.
InitSeries ==
    \E n \in 1..SeriesLen :
        \E slot \in Chronological(n, 1, NumDays * 2), price \in [1..n -> SeriesPrices] :
            InitTransform(SeriesInput(slot, price), TransformCountries)

SpecSeries == InitSeries /\ [][NextTransform]_vars

(***************************************************************************)
(* Transform.iqr_outlier_removal on its own.                               *)
(***************************************************************************)
InitIqr ==
    /\ pc = "iqr"
    /\ \E v \in SeqsUpTo(IqrValues, MaxSeries) : agg_in = IqrInput(v)
    /\ given = agg_in
    /\ agg_out = <<>>
    /\ remote = <<>>
    /\ records = None
    /\ data = NoFrame
    /\ country_list = <<>>
    /\ country_mappings = <<>>
    /\ table = NoFrame
    /\ RunIdle

\* The rows are dropped from the argument itself (dropna with inplace=True)
\* and the argument is what is returned.
IqrOutlierRemoval ==
    /\ pc = "iqr"
    /\ agg_in' = iqr_outlier_removal(agg_in)
    /\ agg_out' = agg_in'
    /\ pc' = "filtered"
    /\ UNCHANGED <<given, records, data, country_list, country_mappings, table, error,
                   runVars>>

NextIqr == IqrOutlierRemoval

SpecIqr == InitIqr /\ [][NextIqr]_vars

(***************************************************************************)
(* validation.build_expectation_suite, and what each expectation asks of a *)
(* table.                                                                  *)
(***************************************************************************)
build_expectation_suite ==
    <<[expectation_type |-> "expect_table_columns_to_match_ordered_list",
       column_list |-> <<"id", "invoice_date", "country", "total_price">>],
      [expectation_type |-> "expect_table_column_count_to_equal", value |-> ColumnCount],
      [expectation_type |-> "expect_column_values_to_not_be_null", column |-> "invoice_date"],
      [expectation_type |-> "expect_column_distinct_values_to_be_in_set",
       column |-> "country", value_set |-> {0, 1, 2}],
      [expectation_type |-> "expect_column_values_to_be_of_type",
       column |-> "country", type_ |-> "int8"],
      [expectation_type |-> "expect_column_min_to_be_between",
       column |-> "total_price", min_value |-> 0, strict_min |-> FALSE],
      [expectation_type |-> "expect_column_values_to_be_of_type",
       column |-> "total_price", type_ |-> "float64"],
      [expectation_type |-> "expect_column_values_to_not_be_null", column |-> "total_price"]>>

\* Is the cell of `column` in row r missing?  Only a float can be NaN here.
IsNull(r, column) == column = "total_price" /\ r.isna

Expectation(e, tbl) ==
    LET t == e.expectation_type
    IN IF t = "expect_table_columns_to_match_ordered_list" THEN tbl.columns = e.column_list
       ELSE IF t = "expect_table_column_count_to_equal" THEN Len(tbl.columns) = e.value
       ELSE IF t = "expect_column_values_to_not_be_null"
       THEN \A r \in Range(tbl.rows) : ~IsNull(r, e.column)
       ELSE IF t = "expect_column_distinct_values_to_be_in_set"
       THEN Range(Column(tbl.rows, e.column)) \subseteq e.value_set
       ELSE IF t = "expect_column_values_to_be_of_type" THEN tbl.dtypes[e.column] = e.type_
       ELSE \* expect_column_min_to_be_between
            /\ tbl.rows # <<>>
            /\ IF e.strict_min
               THEN \A r \in Range(tbl.rows) : r[e.column] > e.min_value
               ELSE \A r \in Range(tbl.rows) : r[e.column] >= e.min_value

\* The expectations of the suite (by position) that the table fails.
FailedExpectations(s, tbl) == {i \in 1..Len(s) : ~Expectation(s[i], tbl)}

(***************************************************************************)
(* Extract (etl.py).                                                       *)
(***************************************************************************)
DataPath == "carrie1/ecommerce-data"

CsvFile(rows) == [exists |-> TRUE, empty |-> FALSE, rows |-> rows]

EmptyFile == [exists |-> TRUE, empty |-> TRUE, rows |-> <<>>]

\* What the kaggle command can do: the call raises (the executable is not
\* found), it ends without leaving data.csv, or it leaves data.csv, empty or
\* with the header and the rows of the dataset.
DownloadOutcomes == {"raises", "nofile", "empty", "csv"}

\* A variant that raises for an empty file and leaves the file in place.
extract_records_keeping_file(file, outcome, dataset) ==
    LET download == ~file.exists
        after == IF ~download \/ outcome \in {"raises", "nofile"} THEN file
                 ELSE IF outcome = "empty" THEN EmptyFile
                 ELSE CsvFile(dataset)
    IN IF download /\ outcome = "raises"
       THEN [cache |-> file, value |-> None, error |-> "none", downloaded |-> TRUE]
       ELSE IF ~after.exists
       THEN [cache |-> after, value |-> None, error |-> "FileNotFoundError",
             downloaded |-> download]
       ELSE IF after.empty
       THEN [cache |-> after, value |-> None, error |-> "ValueError",
             downloaded |-> download]
       ELSE [cache |-> after, value |-> ReadCsv(after.rows), error |-> "none",
             downloaded |-> download]

\* Extract._extract_records_from_file: [cache, value, error, downloaded]
extract_records_from_file(file, outcome, dataset) ==
    LET download == ~file.exists
        after == IF ~download \/ outcome \in {"raises", "nofile"} THEN file
                 ELSE IF outcome = "empty" THEN EmptyFile
                 ELSE CsvFile(dataset)
    IN IF download /\ outcome = "raises"
       THEN [cache |-> file, value |-> None, error |-> "none", downloaded |-> TRUE]
       ELSE IF ~after.exists
       THEN [cache |-> after, value |-> None, error |-> "FileNotFoundError",
             downloaded |-> download]
       ELSE IF after.empty
       THEN [cache |-> AbsentFile, value |-> None, error |-> "ValueError",
             downloaded |-> download]
       ELSE [cache |-> after, value |-> ReadCsv(after.rows), error |-> "none",
             downloaded |-> download]

\* A variant that hands run an empty dataset when nothing could be read.
from_file_lenient(file, outcome, dataset) ==
    LET r == extract_records_from_file(file, outcome, dataset)
        frame == IF r.value = None THEN ReadCsv(<<>>) ELSE r.value
    IN [cache |-> r.cache, records |-> frame,
        metadata |-> [data_path |-> DataPath,
                      num_unique_samples_per_time_series |->
                          Cardinality(Range(Column(frame.rows, "InvoiceDate")))],
        error |-> "none", downloaded |-> r.downloaded]

\* Extract.from_file: [cache, records, metadata, error, downloaded].
\* Subscripting None raises TypeError.
from_file(file, outcome, dataset) ==
    LET r == extract_records_from_file(file, outcome, dataset)
    IN IF r.error # "none"
       THEN [cache |-> r.cache, records |-> None, metadata |-> None,
             error |-> r.error, downloaded |-> r.downloaded]
       ELSE IF r.value = None
       THEN [cache |-> r.cache, records |-> None, metadata |-> None,
             error |-> "TypeError", downloaded |-> r.downloaded]
       ELSE [cache |-> r.cache, records |-> r.value,
             metadata |-> [data_path |-> DataPath,
                           num_unique_samples_per_time_series |->
                               Cardinality(Range(Column(r.value.rows, "InvoiceDate")))],
             error |-> "none", downloaded |-> r.downloaded]

(***************************************************************************)
(* pipeline.run, one action per stage.                                     *)
(***************************************************************************)
FeatureGroupVersion == 1

CacheKind(file) ==
    IF ~file.exists THEN "absent"
    ELSE IF file.empty THEN "empty"
    ELSE IF file.rows = <<>> THEN "header"
    ELSE "data"

\* The prices -5.0 and 10.0.
RunPrices == {-5 * PriceScale, 10 * PriceScale}

\* The days of January 2011 of the run's datasets, and the 32nd, which is no
\* day.
RunDays == {1, NumDays, DaysInMonth(1, 2011) + 1}

RunInput(c, d, p) == [i \in 1..Len(c) |-> RawRow(536365 + i, Stamp(d[i], 1), p[i], c[i])]

Init ==
    /\ pc = "idle"
    /\ \E n \in 0..RunRows :
          \E c \in [1..n -> {"United Kingdom", "France"}],
             d \in [1..n -> RunDays],
             p \in [1..n -> RunPrices] : remote = RunInput(c, d, p)
    /\ cache \in {AbsentFile, EmptyFile, CsvFile(<<>>), CsvFile(remote)}
    /\ records = None
    /\ metadata = None
    /\ data = NoFrame
    /\ country_list = TransformCountries
    /\ country_mappings = <<>>
    /\ table = NoFrame
    /\ suite = <<>>
    /\ store = NoStore
    /\ metafile = None
    /\ error = "none"
    /\ trace = <<>>
    /\ hist = NewHist
    /\ runs = 0
    /\ given = <<>>
    /\ agg_in = <<>>
    /\ agg_out = <<>>

\* python -m feature_pipeline.pipeline: a run starts once the previous one
\* has ended.
StartRun ==
    /\ pc \in {"idle", "done", "failed"}
    /\ runs < MaxRuns
    /\ runs' = runs + 1
    /\ pc' = "extract"
    /\ records' = None
    /\ metadata' = None
    /\ data' = NoFrame
    /\ country_mappings' = <<>>
    /\ table' = NoFrame
    /\ suite' = <<>>
    /\ error' = "none"
    /\ trace' = <<>>
    /\ hist' = [cacheAtStart |-> CacheKind(cache), outcome |-> "none",
                downloaded |-> FALSE, inserted |-> FALSE, saved |-> FALSE,
                batchesAtStart |-> Len(store.batches),
                prevCacheAtStart |-> hist.cacheAtStart]
    /\ UNCHANGED <<cache, remote, country_list, store, metafile, iqrVars>>

Extract ==
    /\ pc = "extract"
    /\ \E outcome \in DownloadOutcomes :
          LET r == from_file(cache, outcome, remote)
          IN /\ cache' = r.cache
             /\ records' = r.records
             /\ metadata' = r.metadata
             /\ error' = r.error
             /\ hist' = [hist EXCEPT !.downloaded = r.downloaded,
                                     !.outcome = IF cache.exists THEN "none" ELSE outcome]
             /\ pc' = IF r.error = "none" THEN "transform" ELSE "failed"
    /\ trace' = Append(trace, "extract")
    /\ UNCHANGED <<remote, data, country_list, country_mappings, table, suite,
                   store, metafile, runs, iqrVars>>

\* data = transform(data).  rename_columns and cast_columns change the frame
\* that from_file returned; the name data of run() is bound to the result
\* (table) afterwards.
TransformStage ==
    /\ pc = "transform"
    /\ trace' = Append(trace, "transform")
    /\ IF CastFails(rename_columns(records))
       THEN /\ records' = rename_columns(records)
            /\ data' = records'
            /\ error' = "ValueError"
            /\ pc' = "failed"
            /\ UNCHANGED <<country_mappings, table>>
       ELSE /\ records' = cast_columns(rename_columns(records))
            /\ country_mappings' = CountryMappings(records', country_list)
            /\ data' = encode_country_column(filter_countries(records', country_list),
                                             country_mappings')
            /\ \E empty_id \in EmptyListDtypes : table' = transform(records, empty_id)
            /\ pc' = "suite"
            /\ UNCHANGED error
    /\ UNCHANGED <<cache, remote, metadata, country_list, suite, store, metafile,
                   hist, runs, iqrVars>>

BuildSuite ==
    /\ pc = "suite"
    /\ suite' = build_expectation_suite
    /\ pc' = "load"
    /\ trace' = Append(trace, "suite")
    /\ UNCHANGED <<cache, remote, records, metadata, data, country_list,
                   country_mappings, table, store, metafile, error, hist, runs,
                   iqrVars>>

\* What the feature store can do: the login or the feature group lookup
\* raises, the insert raises, the statistics calls raise, or all succeed.
StoreOutcomes == {"login_raises", "insert_raises", "statistics_raise", "ok"}

\* Load.to_feature_store: [store, inserted, error].  The feature group is
\* created with the suite on its first use and fetched afterwards.  insert is
\* called with the table whatever the table holds; the store evaluates the
\* attached suite on the inserted table, files the report and ingests the
\* rows.
to_feature_store(fs, tbl, expectation_suite, outcome) ==
    LET group == IF fs.suite = <<>> THEN [fs EXCEPT !.suite = expectation_suite] ELSE fs
    IN IF outcome = "login_raises"
       THEN [store |-> fs, inserted |-> FALSE, error |-> "PublicationError"]
       ELSE IF outcome = "insert_raises"
       THEN [store |-> group, inserted |-> TRUE, error |-> "PublicationError"]
       ELSE [store |-> [group EXCEPT
                          !.batches = Append(@, tbl),
                          !.reports = Append(@, FailedExpectations(group.suite, tbl))],
             inserted |-> TRUE,
             error |-> IF outcome = "ok" THEN "none" ELSE "PublicationError"]

LoadStage ==
    /\ pc = "load"
    /\ \E outcome \in StoreOutcomes :
          LET r == to_feature_store(store, table, suite, outcome)
          IN /\ store' = r.store
             /\ hist' = [hist EXCEPT !.inserted = r.inserted]
             /\ error' = r.error
             /\ pc' = IF r.error = "none" THEN "save" ELSE "failed"
    /\ trace' = Append(trace, "load")
    /\ UNCHANGED <<cache, remote, records, metadata, data, country_list,
                   country_mappings, table, suite, metafile, runs, iqrVars>>

\* metadata["feature_group_version"] = ...; utils.save_json(metadata, ...)
SaveMetadata ==
    /\ pc = "save"
    /\ metadata' = [data_path |-> metadata.data_path,
                    num_unique_samples_per_time_series |->
                        metadata.num_unique_samples_per_time_series,
                    feature_group_version |-> FeatureGroupVersion]
    /\ metafile' = metadata'
    /\ hist' = [hist EXCEPT !.saved = TRUE]
    /\ pc' = "done"
    /\ trace' = Append(trace, "save")
    /\ UNCHANGED <<cache, remote, records, data, country_list, country_mappings,
                   table, suite, store, error, runs, iqrVars>>

Next ==
    \/ StartRun
    \/ Extract
    \/ TransformStage
    \/ BuildSuite
    \/ LoadStage
    \/ SaveMetadata

Spec == Init /\ [][Next]_vars

(***************************************************************************)
(* Properties.                                                             *)
(***************************************************************************)
Transformed == pc = "transformed"

\* The calendar days on which country c has a record in Transform.data.
InputDays(c) == {DayOf(r.invoice_date) : r \in {x \in Range(data.rows) : x.country = c}}

\* The days of the rows aggregate_data emitted for country c, in order.
OutputDays(c) ==
    LET OfCountry(r) == r.country = c
    IN [i \in 1..Len(SelectSeq(table.rows, OfCountry)) |->
           DayOf(SelectSeq(table.rows, OfCountry)[i].invoice_date)]

\* The series aggregate_data hands to iqr_outlier_removal for country c.
FilterArgument(c) == GroupByDate(GroupByInvoice(data.rows), c)

\* C1: for every country code, the rows aggregate_data emits cover exactly
\* the calendar days from the earliest to the latest day on which the country
\* has an input record (before outlier removal), each day once.
C1_CoversObservedRange ==
    Transformed =>
        \A c \in Range(LoopCountries) :
            IF InputDays(c) = {} THEN OutputDays(c) = <<>>
            ELSE OutputDays(c) =
                   [i \in 1..(MaxOf(InputDays(c)) - MinOf(InputDays(c)) + 1) |->
                       MinOf(InputDays(c)) + i - 1]

\* The total of the rows of day d among the rows that survive the filter.
KnownDays(c) == {DayOf(r.invoice_date) : r \in Range(iqr_outlier_removal(FilterArgument(c)))}

KnownTotal(c, d) ==
    LET OnDay(r) == DayOf(r.invoice_date) = d
    IN SumSeq(Column(SelectSeq(iqr_outlier_removal(FilterArgument(c)), OnDay), "total_price"))

\* C2: every calendar day without an observation after outlier removal that
\* lies between two days with one gets the rounded linear interpolation
\* between the nearest known day totals on either side.
C2_GapDaysInterpolated ==
    Transformed =>
        \A c \in Range(LoopCountries) :
            \A r \in {x \in Range(table.rows) : x.country = c} :
                LET d == DayOf(r.invoice_date)
                    before == {j \in KnownDays(c) : j < d}
                    after == {k \in KnownDays(c) : k > d}
                IN (d \notin KnownDays(c) /\ before # {} /\ after # {}) =>
                      LET j == MaxOf(before)
                          k == MinOf(after)
                      IN /\ ~r.isna
                         /\ r.total_price =
                              RoundHalfEven(KnownTotal(c, j) * (k - j)
                                            + (KnownTotal(c, k) - KnownTotal(c, j)) * (d - j),
                                            k - j)

\* C3: the schema declaration is evaluated against the transformed table
\* before the insert, and a table that violates a rule is never inserted:
\* the run ends with a schema violation instead.
C3_InvalidTableNotInserted ==
    (trace # <<>> /\ table # NoFrame
     /\ FailedExpectations(build_expectation_suite, table) # {}) =>
        /\ ~hist.inserted
        /\ Len(store.batches) = hist.batchesAtStart
        /\ pc \in {"done", "failed"} => error = "SchemaViolationError"

\* C4: the table the transform stage returns has the columns id,
\* invoice_date, country, total_price in that order, country values in
\* {0, 1, 2} stored as int8, and total_price float64 without missing value.
C4_TableMatchesSchema ==
    (trace # <<>> /\ table # NoFrame) =>
        /\ table.columns = <<"id", "invoice_date", "country", "total_price">>
        /\ Len(table.columns) = 4
        /\ \A r \in Range(table.rows) : r.country \in {0, 1, 2} /\ ~r.isna
        /\ table.dtypes["country"] = "int8"
        /\ table.dtypes["total_price"] = "float64"

\* The k-th smallest value of a series, by counting.
KthSmallest(vals, k) ==
    CHOOSE v \in Range(vals) :
        /\ Cardinality({i \in 1..Len(vals) : vals[i] < v}) < k
        /\ k <= Cardinality({i \in 1..Len(vals) : vals[i] <= v})

\* Four times the quartile k/4 of a non-empty series.
Quartile4(vals, k) ==
    LET pos4 == k * (Len(vals) - 1)
        lo == (pos4 \div 4) + 1
        fr == pos4 % 4
    IN IF fr = 0 THEN 4 * KthSmallest(vals, lo)
       ELSE KthSmallest(vals, lo) * (4 - fr) + KthSmallest(vals, lo + 1) * fr

Values(rows) == Column(rows, "total_price")

\* The prices of a list of whole amounts.
Priced(amounts) == [i \in 1..Len(amounts) |-> amounts[i] * PriceScale]

\* C5: iqr_outlier_removal returns exactly the input rows whose value v
\* satisfies Q1 - 3*IQR <= v <= Q3 + 3*IQR, with Q1 and Q3 taken once over
\* the whole input; [10, 12, 11, 13, 1000] loses only 1000.
C5_IqrSinglePass ==
    pc = "filtered" =>
        /\ given # <<>> =>
              LET q1 == Quartile4(Values(given), 1)
                  q3 == Quartile4(Values(given), 3)
                  Within(r) == /\ 4 * r.total_price >= q1 - 3 * (q3 - q1)
                               /\ 4 * r.total_price <= q3 + 3 * (q3 - q1)
              IN agg_out = SelectSeq(given, Within)
        /\ given = <<>> => agg_out = <<>>
        /\ Values(given) = Priced(<<10, 12, 11, 13, 1000>>)
              => Values(agg_out) = Priced(<<10, 12, 11, 13>>)

C5_Witness ==
    /\ pc = "filtered"
    /\ Values(given) = Priced(<<10, 12, 11, 13, 1000>>)
    /\ Len(agg_out) = 4
    /\ agg_in = agg_out

\* C6: filter_countries then encode_country_column keeps exactly the records
\* whose country name is in the allow-list and replaces each surviving name
\* by the 0-based position of its first appearance among the kept records.
C6_FirstAppearanceCodes ==
    pc \in {"aggregate", "transformed"} =>
        LET IsIn(r) == r.Country \in Range(country_list)
            kept == SelectSeq(remote, IsIn)
            names == Column(kept, "Country")
            First(n) == MinOf({i \in 1..Len(names) : names[i] = n})
            Position(n) == Cardinality({m \in Range(names) : First(m) < First(n)})
        IN /\ Len(data.rows) = Len(kept)
           /\ \A i \in 1..Len(kept) :
                 /\ data.rows[i].country = Position(names[i])
                 /\ data.rows[i].invoice_id = kept[i].InvoiceNo
                 /\ data.rows[i].total_price = kept[i].UnitPrice
                 /\ data.rows[i].invoice_date = ToDatetime(kept[i].InvoiceDate)

\* C7: with more than 128 distinct country names after filter_countries,
\* encode_country_column returns no encoded dataset (the transform stops
\* with an encoding-range error) and no wrapped code reaches the output.
C7_EncodingRangeGuarded ==
    Cardinality(DOMAIN country_mappings) > Int8Max + 1 =>
        /\ pc \notin {"aggregate", "transformed"}
        /\ \A r \in Range(data.rows) : data.dtypes["country"] = "int8" => r.country >= 0

StageOrder == <<"extract", "transform", "suite", "load", "save">>

\* The source could not be extracted: the download raised or left no
\* readable file, or the cached file was empty.
ExtractionFailed ==
    /\ trace # <<>>
    /\ \/ hist.cacheAtStart = "empty"
       \/ hist.cacheAtStart = "absent" /\ hist.outcome \in {"raises", "nofile", "empty"}

\* C8: the stages of a run execute in the order extraction, transform,
\* suite construction, publication, metadata; a run whose extraction fails
\* ends in failure without an insert and without writing the metadata file;
\* the metadata file is written only after publication returned.
C8_StagesInOrder ==
    /\ \E k \in 0..Len(StageOrder) : trace = SubSeq(StageOrder, 1, k)
    /\ ExtractionFailed =>
          /\ pc = "failed"
          /\ trace = <<"extract">>
          /\ ~hist.inserted
          /\ Len(store.batches) = hist.batchesAtStart
          /\ ~hist.saved
    /\ hist.saved =>
          /\ trace = StageOrder
          /\ hist.inserted
          /\ Len(store.batches) = hist.batchesAtStart + 1
          /\ error = "none"

C8_Witness ==
    /\ ExtractionFailed
    /\ hist.outcome = "raises"
    /\ pc = "failed"
    /\ error = "TypeError"
    /\ store.batches = <<>>
    /\ metafile = None

\* What C9 says of a run that found the cached file in one of `kinds`.
PurgedAndSurfaced(kinds) ==
    /\ (hist.cacheAtStart \in kinds /\ trace # <<>>) =>
          /\ ~cache.exists
          /\ pc = "failed"
          /\ error # "none"
          /\ ~hist.downloaded
          /\ trace = <<"extract">>
    /\ (hist.prevCacheAtStart \in kinds) =>
          /\ hist.cacheAtStart = "absent"
          /\ trace # <<>> => hist.downloaded

\* C9 as stated: a cached file that is present with zero rows is deleted,
\* the error surfaces without a download, transform or publication, and the
\* next run finds no file and downloads.
C9_ZeroRowCachePurged == PurgedAndSurfaced({"empty", "header"})

\* C9: the same of a cached file that is present and empty (no header line,
\* nothing to parse).
C9_EmptyCachePurged == PurgedAndSurfaced({"empty"})

C9_Witness ==
    /\ hist.prevCacheAtStart = "empty"
    /\ hist.cacheAtStart = "absent"
    /\ hist.downloaded
    /\ trace # <<>>

\* C10: the series passed to the outlier filter holds one value per calendar
\* day, the sum of all the country's line prices of that day.
C10_FilterSeesDayTotals ==
    Transformed =>
        \A c \in Range(LoopCountries) :
            LET s == FilterArgument(c)
            IN /\ \A i, j \in 1..Len(s) :
                     i # j => DayOf(s[i].invoice_date) # DayOf(s[j].invoice_date)
               /\ \A i \in 1..Len(s) :
                     LET SameDay(r) == /\ r.country = c
                                       /\ DayOf(r.invoice_date) = DayOf(s[i].invoice_date)
                     IN s[i].total_price
                          = SumSeq(Column(SelectSeq(data.rows, SameDay), "total_price"))

====
